---- MODULE Spec2Model ----
(***************************************************************************)
(* The pub/sub subscription core of go-gousu-redis (service.go): the       *)
(* Subscription handle (Subscribe / Unsubscribe / Close), Service.Subscribe *)
(* and the two goroutines it starts (receiver and keepalive), running      *)
(* against one dedicated connection of the redis pool.                     *)
(*                                                                         *)
(* Every read and write of subscription.conn is a step of its own, since   *)
(* the code takes no lock: a check of the pointer and the later use of it  *)
(* can be separated by any step of another goroutine.  A call through a    *)
(* nil subscription.conn is a nil pointer dereference, which ends the      *)
(* whole process (panicked).                                               *)
(***************************************************************************)
EXTENDS Integers, Sequences, FiniteSets, TLC

Channels == {"a", "b"}
Callers == {"c1", "c2"}

\* the channel sets given to Service.Subscribe: one channel, or both
ChannelSets == {{"a"}, {"a", "b"}}

\* bounds of the model
MaxPublish == 2
MaxCalls == 2

\* make(chan Message, 1)
OutputCap == 1

VARIABLES
    conn,       \* subscription.conn: "unset" (no handle yet), "present", "nil"
    tr,         \* the pooled connection: "pooled", "held", "released"
    link,       \* the network link to the server: "up", "down"
    subs,       \* the channels the server has subscribed on this connection
    frames,     \* frames the server pushed, not yet read by Receive()
    out,        \* the output channel (chan Message, capacity 1)
    rcv,        \* receiver goroutine: "off", "check", "recv", "send", "done"
    rcvMsg,     \* the Message the receiver is sending
    rcvEnd,     \* why the receiver returned: "none", "absent", "error", "count0"
    ka,         \* keepalive goroutine: "off", "tick", "ping", "send", "unsub",
                \*                      "unsub2", "done"
    cpc,        \* per caller: "idle", "sub", "unsub", "close1", "close2", "close3"
    carg,       \* per caller: the channels of the call in progress ({} = all)
    last,       \* per caller: the last call that returned, [op, ret, k] (k flips)
    calls,      \* handle calls begun
    svcRet,     \* what Service.Subscribe returned: "none", "ok", "err"
    expected,   \* history: the messages published on a subscribed channel
    delivered,  \* history: the data Messages put on the output channel
    rcvErrs,    \* history: error Messages put on the output channel by the receiver
    kaErr,      \* history: the keepalive has put an error Message on the stream
    releases,   \* history: calls of conn.Close() on the transport
    panicked    \* the process died of a nil pointer dereference

vars == <<conn, tr, link, subs, frames, out, rcv, rcvMsg, rcvEnd, ka, cpc, carg,
          last, calls, svcRet, expected, delivered, rcvErrs, kaErr, releases,
          panicked>>

\* the connection and the server's side of it
net == <<tr, link, subs, frames, releases>>
\* the receiver goroutine
rcvv == <<rcv, rcvMsg, rcvEnd>>
\* the callers of the handle
callerv == <<cpc, carg, last, calls>>
\* the histories
hist == <<expected, delivered, rcvErrs, kaErr>>

--------------------------------------------------------------------------
\* Values

NoMessage == [err |-> "none", ch |-> "", data |-> 0]

ErrorMessage(e) == [err |-> e, ch |-> "", data |-> 0]

DataMessageNoData(n) == [err |-> "none", ch |-> n.ch, data |-> 0]

\* Message{Channel: n.Channel, Data: n.Data}
DataMessage(n) == [err |-> "none", ch |-> n.ch, data |-> n.data]

\* (m *Message) IsError
IsError(m) == m.err # "none"

MessageFrame(c, d) == [kind |-> "message", ch |-> c, data |-> d, count |-> 0]
CountFrame(k) == [kind |-> "subscription", ch |-> "", data |-> 0, count |-> k]
PongFrame == [kind |-> "pong", ch |-> "", data |-> 0, count |-> 0]

NoCall == [op |-> "none", ret |-> "none", k |-> 0]

\* the record of caller c's call o that returns r; k flips at every return
Returned(c, o, r) == [op |-> o, ret |-> r, k |-> 1 - last[c].k]

--------------------------------------------------------------------------
\* The transport, as the code uses it

\* the connection accepts a command: it is held and the link is up
Writable == tr = "held" /\ link = "up"

\* the server's confirmations of SUBSCRIBE S: one frame per channel, each with
\* the number of channels subscribed after it
RECURSIVE SubscribeFrames(_, _)
SubscribeFrames(S, have) ==
    IF S = {} THEN <<>>
    ELSE LET c == CHOOSE x \in S : TRUE
         IN <<CountFrame(Cardinality(have \cup {c}))>>
                \o SubscribeFrames(S \ {c}, have \cup {c})

\* the server's confirmations of UNSUBSCRIBE S: one frame per channel, each
\* with the number of channels left
RECURSIVE UnsubscribeFrames(_, _)
UnsubscribeFrames(S, have) ==
    IF S = {} THEN <<>>
    ELSE LET c == CHOOSE x \in S : TRUE
         IN <<CountFrame(Cardinality(have \ {c}))>>
                \o UnsubscribeFrames(S \ {c}, have \ {c})

\* UNSUBSCRIBE without channels names every subscribed channel
UnsubscribeTargets(S) == IF S = {} THEN subs ELSE S

\* ... and is confirmed by one frame with count 0 when nothing is subscribed
UnsubscribeReply(S) ==
    IF S = {} /\ subs = {} THEN <<CountFrame(0)>>
    ELSE UnsubscribeFrames(UnsubscribeTargets(S), subs)

\* Frames wait to be read only while the receiver goroutine lives: once it
\* has returned nothing reads the connection again.
NoReader == rcv = "done"
Push(fs) == IF NoReader THEN <<>> ELSE frames \o fs

\* the reply of PING; the receiver has no case for it and drops every one, so
\* the replies not yet read are kept as one
PongReply ==
    IF \E i \in 1..Len(frames) : frames[i] = PongFrame THEN <<>> ELSE <<PongFrame>>

\* what a call of Receive() can return now: nothing while the connection is
\* healthy and no frame has come (the call blocks), an error once the
\* connection is released or the link is down
ReceiveOutcomes ==
    IF tr = "released" \/ link = "down" THEN {"error"}
    ELSE IF frames # <<>> THEN {"frame"} ELSE {}

Running == ~panicked

--------------------------------------------------------------------------
\* Initial state: the service is started, nothing is subscribed

Init ==
    /\ conn = "unset"
    /\ tr = "pooled"
    /\ link = "up"
    /\ subs = {}
    /\ frames = <<>>
    /\ out = <<>>
    /\ rcv = "off"
    /\ rcvMsg = NoMessage
    /\ rcvEnd = "none"
    /\ ka = "off"
    /\ cpc = [c \in Callers |-> "idle"]
    /\ carg = [c \in Callers |-> {}]
    /\ last = [c \in Callers |-> NoCall]
    /\ calls = 0
    /\ svcRet = "none"
    /\ expected = <<>>
    /\ delivered = <<>>
    /\ rcvErrs = 0
    /\ kaErr = FALSE
    /\ releases = 0
    /\ panicked = FALSE

--------------------------------------------------------------------------
\* The environment: the link, the publishers, the consumer

\* the link to the server breaks: the frames not yet read are lost, the
\* server forgets the connection's subscriptions, and nothing in the code
\* reconnects
LinkFails ==
    /\ Running
    /\ link = "up"
    /\ link' = "down"
    /\ frames' = <<>>
    /\ subs' = {}
    /\ UNCHANGED <<conn, tr, releases, out, rcvv, ka, callerv, svcRet, hist,
                   panicked>>

\* Service.Publish from elsewhere: the server pushes a message frame on every
\* connection subscribed to the channel (a publish on another channel does
\* not reach this connection); the payload is the publish's number
Publish(ch) ==
    /\ Running
    /\ Writable
    /\ ch \in subs
    /\ Len(expected) < MaxPublish
    /\ frames' = Push(<<MessageFrame(ch, Len(expected) + 1)>>)
    /\ expected' = Append(expected,
                          [err |-> "none", ch |-> ch, data |-> Len(expected) + 1])
    /\ UNCHANGED <<conn, tr, link, subs, releases, out, rcvv, ka, callerv, svcRet,
                   delivered, rcvErrs, kaErr, panicked>>

\* the consumer takes the next Message off the output channel
Consume ==
    /\ Running
    /\ Len(out) > 0
    /\ out' = Tail(out)
    /\ UNCHANGED <<conn, net, rcvv, ka, callerv, svcRet, hist, panicked>>

--------------------------------------------------------------------------
\* Service.Subscribe

\* pool.Get, psc.Subscribe(channels...); on success the output channel, the
\* handle and the two goroutines; on failure return nil, nil, err
ServiceSubscribe(C) ==
    /\ Running
    /\ svcRet = "none"
    /\ tr' = "held"
    /\ IF link = "up"
       THEN /\ subs' = C
            /\ frames' = SubscribeFrames(C, {})
            /\ conn' = "present"
            /\ rcv' = "check"
            /\ ka' = "tick"
            /\ svcRet' = "ok"
       ELSE /\ svcRet' = "err"
            /\ UNCHANGED <<subs, frames, conn, rcv, ka>>
    /\ UNCHANGED <<link, releases, out, rcvMsg, rcvEnd, callerv, hist, panicked>>

--------------------------------------------------------------------------
\* The receiver goroutine

SubscriptionNeverEnds(n) == FALSE

SubscriptionAlwaysEnds(n) == n.count >= 0

\* case redis.Subscription: switch n.Count { case 0: return }
SubscriptionEnds(n) == n.count = 0

\* for subscription.conn != nil
RcvCheck ==
    /\ Running
    /\ rcv = "check"
    /\ IF conn = "nil"
       THEN rcv' = "done" /\ rcvEnd' = "absent" /\ frames' = <<>>
       ELSE rcv' = "recv" /\ UNCHANGED <<rcvEnd, frames>>
    /\ UNCHANGED <<conn, tr, link, subs, releases, out, rcvMsg, ka, callerv,
                   svcRet, hist, panicked>>

\* switch n := subscription.conn.Receive().(type)
RcvReceive ==
    /\ Running
    /\ rcv = "recv"
    /\ IF conn = "nil"
       THEN /\ panicked' = TRUE
            /\ UNCHANGED <<frames, rcvv>>
       ELSE /\ UNCHANGED panicked
            /\ \E o \in ReceiveOutcomes :
                 IF o = "error"
                 THEN /\ rcvMsg' = ErrorMessage("ConnectionError")
                      /\ rcv' = "send"
                      /\ UNCHANGED <<frames, rcvEnd>>
                 ELSE LET n == Head(frames) IN
                      IF n.kind = "message"
                      THEN /\ rcvMsg' = DataMessage(n)
                           /\ rcv' = "send"
                           /\ frames' = Tail(frames)
                           /\ UNCHANGED rcvEnd
                      ELSE IF n.kind = "subscription" /\ SubscriptionEnds(n)
                      THEN /\ rcv' = "done"
                           /\ rcvEnd' = "count0"
                           /\ frames' = <<>>
                           /\ UNCHANGED rcvMsg
                      ELSE /\ rcv' = "check"
                           /\ frames' = Tail(frames)
                           /\ UNCHANGED <<rcvMsg, rcvEnd>>
    /\ UNCHANGED <<conn, tr, link, subs, releases, out, ka, callerv, svcRet, hist>>

RcvSendGoesOn ==
    /\ Running
    /\ rcv = "send"
    /\ Len(out) < OutputCap
    /\ out' = Append(out, rcvMsg)
    /\ rcv' = "check"
    /\ IF IsError(rcvMsg)
       THEN rcvErrs' = rcvErrs + 1 /\ UNCHANGED delivered
       ELSE delivered' = Append(delivered, rcvMsg) /\ UNCHANGED rcvErrs
    /\ rcvMsg' = NoMessage
    /\ UNCHANGED <<conn, net, rcvEnd, ka, callerv, svcRet, expected, kaErr,
                   panicked>>

RcvSendDropping ==
    /\ Running
    /\ rcv = "send"
    /\ out' = IF Len(out) < OutputCap THEN Append(out, rcvMsg) ELSE out
    /\ IF IsError(rcvMsg)
       THEN /\ rcv' = "done"
            /\ rcvEnd' = "error"
            /\ rcvErrs' = rcvErrs + 1
            /\ frames' = <<>>
            /\ UNCHANGED delivered
       ELSE /\ rcv' = "check"
            /\ delivered' = Append(delivered, rcvMsg)
            /\ UNCHANGED <<frames, rcvEnd, rcvErrs>>
    /\ rcvMsg' = NoMessage
    /\ UNCHANGED <<conn, tr, link, subs, releases, ka, callerv, svcRet, expected,
                   kaErr, panicked>>

\* output <- Message{...}; return after an error
RcvSend ==
    /\ Running
    /\ rcv = "send"
    /\ Len(out) < OutputCap
    /\ out' = Append(out, rcvMsg)
    /\ IF IsError(rcvMsg)
       THEN /\ rcv' = "done"
            /\ rcvEnd' = "error"
            /\ rcvErrs' = rcvErrs + 1
            /\ frames' = <<>>
            /\ UNCHANGED delivered
       ELSE /\ rcv' = "check"
            /\ delivered' = Append(delivered, rcvMsg)
            /\ UNCHANGED <<frames, rcvEnd, rcvErrs>>
    /\ rcvMsg' = NoMessage
    /\ UNCHANGED <<conn, tr, link, subs, releases, ka, callerv, svcRet, expected,
                   kaErr, panicked>>

--------------------------------------------------------------------------
\* The keepalive goroutine

\* for subscription.conn != nil { <-ticker.C
\* (the loop test and the wait for the next tick; the goroutine does nothing
\* between them)
KaTick ==
    /\ Running
    /\ ka = "tick"
    /\ ka' = IF conn = "nil" THEN "done" ELSE "ping"
    /\ UNCHANGED <<conn, net, out, rcvv, callerv, svcRet, hist, panicked>>

\* if err := psc.Ping(""); err != nil  (psc is the goroutine's own pointer)
KaPing ==
    /\ Running
    /\ ka = "ping"
    /\ IF Writable
       THEN /\ frames' = Push(PongReply)
            /\ ka' = "tick"
       ELSE /\ ka' = "send"
            /\ UNCHANGED frames
    /\ UNCHANGED <<conn, tr, link, subs, releases, out, rcvv, callerv, svcRet,
                   hist, panicked>>

\* output <- Message{Error: err}
KaSend ==
    /\ Running
    /\ ka = "send"
    /\ Len(out) < OutputCap
    /\ out' = Append(out, ErrorMessage("LivenessCheckFailed"))
    /\ kaErr' = TRUE
    /\ ka' = "unsub"
    /\ UNCHANGED <<conn, net, rcvv, callerv, svcRet, expected, delivered, rcvErrs,
                   panicked>>

\* subscription.Unsubscribe(): if s.conn == nil { return error }
KaUnsubscribe ==
    /\ Running
    /\ ka = "unsub"
    /\ ka' = IF conn = "nil" THEN "tick" ELSE "unsub2"
    /\ UNCHANGED <<conn, net, out, rcvv, callerv, svcRet, hist, panicked>>

\* subscription.Unsubscribe(): return s.conn.Unsubscribe(); the result is dropped
KaUnsubscribeSend ==
    /\ Running
    /\ ka = "unsub2"
    /\ IF conn = "nil"
       THEN /\ panicked' = TRUE
            /\ UNCHANGED <<ka, frames, subs>>
       ELSE /\ ka' = "tick"
            /\ IF Writable
               THEN /\ frames' = Push(UnsubscribeReply({}))
                    /\ subs' = {}
               ELSE UNCHANGED <<frames, subs>>
            /\ UNCHANGED panicked
    /\ UNCHANGED <<conn, tr, link, releases, out, rcvv, callerv, svcRet, hist>>

--------------------------------------------------------------------------
\* The handle: Subscription.Subscribe, Unsubscribe, Close

\* a call returns: the caller is idle again and the result is recorded
Return(c, o, r) ==
    /\ cpc' = [cpc EXCEPT ![c] = "idle"]
    /\ carg' = [carg EXCEPT ![c] = {}]
    /\ last' = [last EXCEPT ![c] = Returned(c, o, r)]

\* a call goes on to its next statement
Goto(c, pc) ==
    /\ cpc' = [cpc EXCEPT ![c] = pc]
    /\ UNCHANGED <<carg, last>>

\* The callers are interchangeable goroutines: a call that begins while no
\* call is in progress is c1's, and c2 calls only while c1 is in a call.  The
\* call that overlaps another is a Close: a call that passes the nil check
\* does nothing else in that step, so a Subscribe or Unsubscribe overlapping
\* a Close is c1's, begun before c2's Close.
Overlaps(c) == c = "c1" \/ cpc["c1"] # "idle"
Closers == Callers
Subscribers == {"c1"}

\* a call begins on the handle Service.Subscribe returned
Begin(c) ==
    /\ Running
    /\ conn # "unset"
    /\ cpc[c] = "idle"
    /\ Overlaps(c)
    /\ calls < MaxCalls
    /\ calls' = calls + 1

\* Subscription.Subscribe: if s.conn == nil { return fmt.Errorf("No connection") }
CallSubscribe(c, ch) ==
    /\ Begin(c)
    /\ IF conn = "nil"
       THEN Return(c, "Subscribe", "NotConnected")
       ELSE /\ cpc' = [cpc EXCEPT ![c] = "sub"]
            /\ carg' = [carg EXCEPT ![c] = {ch}]
            /\ UNCHANGED last
    /\ UNCHANGED <<conn, net, out, rcvv, ka, svcRet, hist, panicked>>

\* Subscription.Subscribe: return s.conn.Subscribe(channel...)
SubscribeSend(c) ==
    /\ Running
    /\ cpc[c] = "sub"
    /\ IF conn = "nil"
       THEN /\ panicked' = TRUE
            /\ UNCHANGED <<cpc, carg, last, frames, subs>>
       ELSE /\ UNCHANGED panicked
            /\ IF Writable
               THEN /\ frames' = Push(SubscribeFrames(carg[c], subs))
                    /\ subs' = subs \cup carg[c]
                    /\ Return(c, "Subscribe", "nil")
               ELSE /\ UNCHANGED <<frames, subs>>
                    /\ Return(c, "Subscribe", "err")
    /\ UNCHANGED <<conn, tr, link, releases, out, rcvv, ka, calls, svcRet, hist>>

CallUnsubscribeUnchecked(c, S) ==
    /\ Begin(c)
    /\ cpc' = [cpc EXCEPT ![c] = "unsub"]
    /\ carg' = [carg EXCEPT ![c] = S]
    /\ UNCHANGED <<last, conn, net, out, rcvv, ka, svcRet, hist, panicked>>

\* Subscription.Unsubscribe: if s.conn == nil { return fmt.Errorf("No connection") }
CallUnsubscribe(c, S) ==
    /\ Begin(c)
    /\ IF conn = "nil"
       THEN Return(c, "Unsubscribe", "NotConnected")
       ELSE /\ cpc' = [cpc EXCEPT ![c] = "unsub"]
            /\ carg' = [carg EXCEPT ![c] = S]
            /\ UNCHANGED last
    /\ UNCHANGED <<conn, net, out, rcvv, ka, svcRet, hist, panicked>>

\* Subscription.Unsubscribe: return s.conn.Unsubscribe(channel...)
UnsubscribeSend(c) ==
    /\ Running
    /\ cpc[c] = "unsub"
    /\ IF conn = "nil"
       THEN /\ panicked' = TRUE
            /\ UNCHANGED <<cpc, carg, last, frames, subs>>
       ELSE /\ UNCHANGED panicked
            /\ IF Writable
               THEN /\ frames' = Push(UnsubscribeReply(carg[c]))
                    /\ subs' = subs \ UnsubscribeTargets(carg[c])
                    /\ Return(c, "Unsubscribe", "nil")
               ELSE /\ UNCHANGED <<frames, subs>>
                    /\ Return(c, "Unsubscribe", "err")
    /\ UNCHANGED <<conn, tr, link, releases, out, rcvv, ka, calls, svcRet, hist>>

\* Subscription.Close: if s.conn == nil { return fmt.Errorf("No connection") }
CallClose(c) ==
    /\ Begin(c)
    /\ IF conn = "nil"
       THEN Return(c, "Close", "NotConnected")
       ELSE Goto(c, "close1")
    /\ UNCHANGED <<conn, net, out, rcvv, ka, svcRet, hist, panicked>>

\* Subscription.Close: err := s.conn.Unsubscribe(); if err != nil { return err }
CloseUnsubscribe(c) ==
    /\ Running
    /\ cpc[c] = "close1"
    /\ IF conn = "nil"
       THEN /\ panicked' = TRUE
            /\ UNCHANGED <<cpc, carg, last, frames, subs>>
       ELSE /\ UNCHANGED panicked
            /\ IF Writable
               THEN /\ frames' = Push(UnsubscribeReply({}))
                    /\ subs' = {}
                    /\ Goto(c, "close2")
               ELSE /\ UNCHANGED <<frames, subs>>
                    /\ Return(c, "Close", "err")
    /\ UNCHANGED <<conn, tr, link, releases, out, rcvv, ka, calls, svcRet, hist>>

CloseReleaseGivesUp(c) ==
    /\ Running
    /\ cpc[c] = "close2"
    /\ IF conn = "nil"
       THEN /\ panicked' = TRUE
            /\ UNCHANGED <<conn, cpc, carg, last, frames, subs, tr, releases>>
       ELSE /\ UNCHANGED panicked
            /\ tr' = "released"
            /\ releases' = releases + 1
            /\ frames' = <<>>
            /\ subs' = {}
            /\ \E ok \in IF link = "up" THEN {TRUE} ELSE {TRUE, FALSE} :
                 IF ok THEN Goto(c, "close3") /\ UNCHANGED conn
                 ELSE Return(c, "Close", "err") /\ conn' = "nil"
    /\ UNCHANGED <<link, out, rcvv, ka, calls, svcRet, hist>>

CloseSkipsRelease(c) ==
    /\ Running
    /\ cpc[c] = "close2"
    /\ IF conn = "nil"
       THEN /\ panicked' = TRUE
            /\ UNCHANGED <<cpc, carg, last>>
       ELSE /\ UNCHANGED panicked
            /\ Goto(c, "close3")
    /\ UNCHANGED <<conn, net, out, rcvv, ka, calls, svcRet, hist>>

\* Subscription.Close: err = s.conn.Close(); if err != nil { return err }
\* The connection is closed whatever Close() returns, and the frames not yet
\* read go with it; an error can come back only from a link that is down.
CloseRelease(c) ==
    /\ Running
    /\ cpc[c] = "close2"
    /\ IF conn = "nil"
       THEN /\ panicked' = TRUE
            /\ UNCHANGED <<cpc, carg, last, frames, subs, tr, releases>>
       ELSE /\ UNCHANGED panicked
            /\ tr' = "released"
            /\ releases' = releases + 1
            /\ frames' = <<>>
            /\ subs' = {}
            /\ \E ok \in IF link = "up" THEN {TRUE} ELSE {TRUE, FALSE} :
                 IF ok THEN Goto(c, "close3") ELSE Return(c, "Close", "err")
    /\ UNCHANGED <<conn, link, out, rcvv, ka, calls, svcRet, hist>>

\* Subscription.Close: s.conn = nil; return nil
CloseMarkAbsent(c) ==
    /\ Running
    /\ cpc[c] = "close3"
    /\ conn' = "nil"
    /\ Return(c, "Close", "nil")
    /\ UNCHANGED <<net, out, rcvv, ka, calls, svcRet, hist, panicked>>

--------------------------------------------------------------------------
\* The specifications

Receiver == RcvCheck \/ RcvReceive \/ RcvSend

Keepalive == KaTick \/ KaPing \/ KaSend \/ KaUnsubscribe \/ KaUnsubscribeSend

CallStep(c) ==
    SubscribeSend(c) \/ UnsubscribeSend(c) \/ CloseUnsubscribe(c)
        \/ CloseRelease(c) \/ CloseMarkAbsent(c)

Next ==
    \/ LinkFails
    \/ \E ch \in Channels : Publish(ch)
    \/ Consume
    \/ \E C \in ChannelSets : ServiceSubscribe(C)
    \/ RcvCheck
    \/ RcvReceive
    \/ RcvSend
    \/ KaTick
    \/ KaPing
    \/ KaSend
    \/ KaUnsubscribe
    \/ KaUnsubscribeSend
    \/ \E c \in Subscribers, ch \in Channels : CallSubscribe(c, ch)
    \/ \E c \in Subscribers : SubscribeSend(c)
    \/ \E c \in Subscribers, S \in {{}} \cup {{ch} : ch \in Channels} : CallUnsubscribe(c, S)
    \/ \E c \in Subscribers : UnsubscribeSend(c)
    \/ \E c \in Closers : CallClose(c)
    \/ \E c \in Closers : CloseUnsubscribe(c)
    \/ \E c \in Closers : CloseRelease(c)
    \/ \E c \in Closers : CloseMarkAbsent(c)

Spec == Init /\ [][Next]_vars

\* The Go scheduler runs every goroutine that can take a step, the ticker
\* fires, and a call that has begun goes on; FairSpec adds a consumer that
\* keeps reading the output channel.
FairSpec ==
    /\ Spec
    /\ WF_vars(Receiver)
    /\ WF_vars(Keepalive)
    /\ WF_vars(Consume)
    /\ \A c \in Callers : WF_vars(CallStep(c))

\* FairSpec without the consumer: the goroutines and the calls go on, nobody
\* is bound to read the output channel.
FairNoConsumerSpec ==
    /\ Spec
    /\ WF_vars(Receiver)
    /\ WF_vars(Keepalive)
    /\ \A c \in Callers : WF_vars(CallStep(c))

--------------------------------------------------------------------------
\* Derived histories

\* the keepalive has put an error Message on the stream and is not in the
\* subscription.Unsubscribe() that follows: it has run its failure path to
\* the end at least once
KaHandled == kaErr /\ ka \notin {"unsub", "unsub2"}

\* a step that puts a Message on the output channel
Enqueues == Len(out') > Len(out)

IsPrefix(s, t) == Len(s) <= Len(t) /\ \A i \in 1..Len(s) : s[i] = t[i]

\* the published messages still on their way: the one the receiver holds and
\* those in the frames not yet read
Plain(f) == [err |-> "none", ch |-> f.ch, data |-> f.data]
IsMessageFrame(f) == f.kind = "message"
RECURSIVE PlainAll(_)
PlainAll(q) == IF q = <<>> THEN <<>> ELSE <<Plain(Head(q))>> \o PlainAll(Tail(q))
Held == IF rcv = "send" /\ ~IsError(rcvMsg) THEN <<rcvMsg>> ELSE <<>>
OnTheWay == Held \o PlainAll(SelectSeq(frames, IsMessageFrame))

\* the subscription is up: connection held, link up, receiver running
Streaming == conn = "present" /\ Writable /\ rcv \in {"check", "recv", "send"}

--------------------------------------------------------------------------
\* Claims

\* C1: the data Messages put on the stream are, in order, the messages
\* published on subscribed channels (same channel, same payload, none twice,
\* none out of order); while the subscription is up none is lost (every
\* published message has been put on the stream, is held by the receiver for
\* its send, or waits in the frames to be read); and with a consumer that
\* keeps reading, the k-th published message is put on the stream unless the
\* subscription goes down first.
C1_ExactlyOnceInOrder ==
    /\ [](IsPrefix(delivered, expected))
    /\ [](Streaming => expected = delivered \o OnTheWay)
    /\ \A k \in 1..MaxPublish :
         (Streaming /\ Len(expected) >= k) ~> (Len(delivered) >= k \/ ~Streaming)

\* two publishes, on both channels, delivered in publish order
C1_Witness ==
    /\ Streaming
    /\ Len(delivered) = 2
    /\ delivered = expected
    /\ delivered[1].ch # delivered[2].ch

\* a Close has returned nil to caller c, and it is c's latest call
ClosedBy(c) == last[c].op = "Close" /\ last[c].ret = "nil"

\* C2: after a Close has returned no error, no step of the receiver or of the
\* keepalive puts a further Message on the stream.
C2_NoMessageAfterClose ==
    [][(\E c \in Callers : ClosedBy(c)) => ~Enqueues]_vars

\* C3: once Close has been called on a present handle, from some point on no
\* Message is put on the stream any more: the output channel stays empty, or
\* stays full.  (Messages keep coming exactly if the channel is empty again
\* and again and full again and again.)
C3_StreamStopsAfterClose ==
    (\E c \in Callers : cpc[c] = "close1") ~> ([](out = <<>>) \/ [](out # <<>>))

\* caller c returns from a call in this step
Returns(c) == last'[c].k # last[c].k

\* the state the handle and the connection share
handle == <<conn, tr, link, subs, frames, releases>>

\* C4: the Close that follows a Close of the same caller returns
\* NotConnected, whether the first returned nil or an error, in one step and
\* without touching the shared state.
C4_SecondCloseNotConnected ==
    [][\A c \in Callers :
         (Returns(c) /\ last[c].op = "Close" /\ last[c].ret \in {"nil", "err"}
                     /\ last'[c].op = "Close")
             => (last'[c].ret = "NotConnected" /\ cpc[c] = "idle"
                     /\ UNCHANGED handle)]_vars

\* C5: two Close calls that overlap on a healthy connection: the transport is
\* released once, one call tears down and the other returns NotConnected, and
\* nobody dereferences the absent connection.
C5_ConcurrentCloseOnce ==
    (/\ link = "up"
     /\ \A c \in Callers : cpc[c] = "idle" /\ last[c].op = "Close" /\ last[c].k = 1)
        => /\ ~panicked
           /\ releases = 1
           /\ Cardinality({c \in Callers : last[c].ret = "NotConnected"}) = 1
           /\ Cardinality({c \in Callers : last[c].ret = "nil"}) = 1

\* a step that operates on the transport: a receive, a probe, a command of a
\* handle call, a release, or the dereference that ends the process
TransportOp ==
    \/ panicked' # panicked
    \/ rcv = "recv" /\ rcv' # "recv"
    \/ ka = "ping" /\ ka' # "ping"
    \/ ka = "unsub2" /\ ka' # "unsub2"
    \/ \E c \in Callers : cpc[c] \in {"sub", "unsub", "close1", "close2"}
                            /\ cpc'[c] # cpc[c]

\* C6: once the connection is marked absent, nobody operates on the transport.
C6_NoOperationOnAbsent ==
    [][conn = "nil" => ~TransportOp]_vars

\* C7: after a probe failure was reported the handle becomes absent and both
\* goroutines return (unless the process has died).
C7_KeepaliveTearsDown ==
    kaErr ~> (panicked \/ (conn = "nil" /\ rcv = "done" /\ ka = "done"))

\* C8: the keepalive puts at most one error Message on the stream: once it
\* has put one, it puts no other.
C8_OneKeepaliveError ==
    [][kaErr => ~(ka = "send" /\ ka' = "unsub" /\ Enqueues)]_vars

\* C9: an Unsubscribe called after the keepalive has handled a probe failure
\* returns NotConnected, that is, it does not get past the nil check.
C9_UnsubscribeAfterKeepalive ==
    [][KaHandled => \A c \in Callers : ~(cpc[c] = "idle" /\ cpc'[c] = "unsub")]_vars

\* every channel has been unsubscribed on a present handle whose connection
\* is healthy
UnsubscribedAll == conn = "present" /\ Writable /\ subs = {}

\* C10: after the Unsubscribe of every channel on a present handle with a
\* healthy connection, and as long as that stays so (no link failure, no
\* Close, no new Subscribe), the receiver reads the frame with count 0 and
\* returns; a receiver that returned on count 0 has put no error Message on
\* the stream.
C10_UnsubscribeAllEndsReceiver ==
    /\ UnsubscribedAll ~> (rcvEnd = "count0" \/ ~UnsubscribedAll)
    /\ [](rcvEnd = "count0" => rcv = "done" /\ rcvErrs = 0)

\* the receiver has returned on count 0 after an Unsubscribe of every channel
\* that returned nil, without an error Message
C10_Witness ==
    /\ UnsubscribedAll
    /\ last["c1"] = [op |-> "Unsubscribe", ret |-> "nil", k |-> 1]
    /\ rcv = "done"
    /\ rcvEnd = "count0"
    /\ rcvErrs = 0

\* C11: once the receiver has returned on a frame with count 0, no step puts
\* a Message on the stream, the keepalive's steps included.
C11_NoMessageAfterCleanEnd ==
    [][rcvEnd = "count0" => ~Enqueues]_vars

\* a handle call begins in this step
Begins == calls' # calls

\* C12: an absent handle stays absent, and a call that begins on an absent
\* handle returns NotConnected in the same step, to a caller that is idle
\* again, with no command issued: the connection and the server's side of it
\* are unchanged.
C12_ClosedIsTerminal ==
    [][conn = "nil" =>
         /\ conn' = "nil"
         /\ Begins => /\ \E c \in Callers :
                            Returns(c) /\ last'[c].ret = "NotConnected"
                      /\ cpc' = cpc
                      /\ UNCHANGED net]_vars

\* after a Close that returned nil, a Subscribe returned NotConnected; the
\* handle is absent and the transport was released once
C12_Witness ==
    /\ conn = "nil"
    /\ calls = 2
    /\ last["c1"] = [op |-> "Subscribe", ret |-> "NotConnected", k |-> 0]
    /\ last["c2"] = NoCall
    /\ releases = 1
    /\ ~panicked

\* C13: a Service.Subscribe that returned an error has made no handle, has
\* started neither goroutine and holds no connection.
C13_FailedSubscribeReleases ==
    svcRet = "err" =>
        conn = "unset" /\ rcv = "off" /\ ka = "off" /\ tr # "held"

\* an error Message has been put on the stream
ErrorSent == kaErr \/ rcvErrs > 0

\* C14: once an error Message has been put on the stream, no step puts a
\* data Message on it.
C14_ErrorIsTerminal ==
    [][ErrorSent => ~(Enqueues /\ ~IsError(out'[Len(out')]))]_vars

\* C15: the output channel never holds more than OutputCap (one) Message; it
\* changes only by the consumer taking its head or by a producer appending
\* its Message to a channel that is not full; while it is full a producer
\* with a Message to send stays where it is, with its Message; and the
\* receiver leaves its send only by putting its Message on the channel.
C15_BoundedBlockingStream ==
    /\ [](Len(out) <= OutputCap)
    /\ [][out' # out =>
            \/ out # <<>> /\ out' = Tail(out)
            \/ Len(out) < OutputCap /\ rcv = "send" /\ out' = Append(out, rcvMsg)
            \/ Len(out) < OutputCap /\ ka = "send"
                  /\ out' = Append(out, ErrorMessage("LivenessCheckFailed"))]_vars
    /\ [][Len(out) = OutputCap =>
            /\ rcv = "send" => rcv' = "send" /\ rcvMsg' = rcvMsg
            /\ ka = "send" => ka' = "send"]_vars
    /\ [][rcv = "send" /\ rcv' # "send" => out' = Append(out, rcvMsg)]_vars

\* the channel is full and both goroutines wait to send: the receiver with
\* the second published message, the keepalive with its error
C15_Witness ==
    /\ Len(out) = OutputCap
    /\ rcv = "send"
    /\ rcvMsg = [err |-> "none", ch |-> rcvMsg.ch, data |-> 2]
    /\ ka = "send"

\* C16: after the receiver has returned on count 0 or on a read error, the
\* handle becomes absent, the transport is released and the keepalive
\* returns (unless the process has died).
C16_ReceiverEndClosesHandle ==
    (rcvEnd \in {"count0", "error"})
        ~> (panicked \/ (conn = "nil" /\ tr = "released" /\ ka = "done"))

\* C17: a Close goes from the nil check to the UNSUBSCRIBE of every channel,
\* from there to the release of the transport, from there to s.conn = nil and
\* the return of nil; the handle is marked absent only by that last step, and
\* an absent handle's transport is released.
C17_CloseOrder ==
    /\ [](conn = "nil" => tr = "released")
    /\ [][\A c \in Callers :
            /\ (cpc[c] # "close2" /\ cpc'[c] = "close2") =>
                  /\ cpc[c] = "close1" /\ Writable
                  /\ frames' = Push(UnsubscribeReply({})) /\ subs' = {}
                  /\ UNCHANGED <<conn, tr, releases>>
            /\ (cpc[c] # "close3" /\ cpc'[c] = "close3") =>
                  /\ cpc[c] = "close2"
                  /\ tr' = "released" /\ releases' = releases + 1
                  /\ UNCHANGED conn
            /\ (Returns(c) /\ last'[c].op = "Close" /\ last'[c].ret = "nil") =>
                  /\ cpc[c] = "close3"
                  /\ conn' = "nil"
                  /\ UNCHANGED net]_vars
    /\ [][conn' # conn /\ conn' = "nil" =>
            \E c \in Callers : cpc[c] = "close3" /\ ClosedBy(c)']_vars

\* one Close, begun on a subscription to both channels, has returned nil
C17_Witness ==
    /\ calls = 1
    /\ ClosedBy("c1")
    /\ conn = "nil"
    /\ tr = "released"
    /\ releases = 1
    /\ subs = {}
    /\ ~panicked

\* C18: the receiver that has read an error puts that one error Message on
\* the stream and returns: it enqueues at most one error Message, has
\* returned once it has enqueued it, and a receiver that has returned takes no
\* further step (no receive, no Message).
C18_ReceiverErrorIsLast ==
    /\ [](rcvErrs <= 1)
    /\ [](rcvErrs = 1 => rcv = "done" /\ rcvEnd = "error")
    /\ [][(rcv = "send" /\ IsError(rcvMsg) /\ rcv' # "send") =>
            /\ out' = Append(out, rcvMsg)
            /\ rcvErrs' = rcvErrs + 1
            /\ rcv' = "done"]_vars
    /\ [][rcv = "done" => UNCHANGED <<rcvv, delivered, rcvErrs>>]_vars

\* the receiver has delivered a published message, then read an error, sent
\* its error Message and returned
C18_Witness ==
    /\ rcvErrs = 1
    /\ rcvEnd = "error"
    /\ rcv = "done"
    /\ Len(delivered) = 1
    /\ out = <<ErrorMessage("ConnectionError")>>

\* the frame the receiver reads next is a confirmation with a count other
\* than 0, or the reply of a probe
ReadsOtherFrame ==
    /\ rcv = "recv"
    /\ rcv' # "recv"
    /\ ~panicked'
    /\ ReceiveOutcomes = {"frame"}
    /\ \/ Head(frames).kind = "pong"
       \/ Head(frames).kind = "subscription" /\ Head(frames).count # 0

\* C19: the receiver that reads a confirmation with a count other than 0, or
\* the reply of a probe, drops the frame and goes back to its loop test: no
\* Message is made of it and none is put on the stream; and every Message on
\* the stream or in the receiver's hand is an error or a published message.
C19_OtherFramesDropped ==
    /\ [][ReadsOtherFrame =>
            /\ rcv' = "check"
            /\ frames' = Tail(frames)
            /\ UNCHANGED <<out, rcvMsg, rcvEnd, delivered, rcvErrs>>]_vars
    /\ [](\A i \in 1..Len(out) :
            IsError(out[i]) \/ \E j \in 1..Len(expected) : out[i] = expected[j])
    /\ [](rcv = "send" =>
            IsError(rcvMsg) \/ \E j \in 1..Len(expected) : rcvMsg = expected[j])

\* the receiver has read the confirmations of the initial SUBSCRIBE and of an
\* Unsubscribe that left a channel subscribed, and is in its next receive;
\* nothing has reached the stream
C19_Witness ==
    /\ Streaming
    /\ last["c1"] = [op |-> "Unsubscribe", ret |-> "nil", k |-> 1]
    /\ subs # {}
    /\ frames = <<>>
    /\ rcv = "recv"
    /\ out = <<>>
    /\ delivered = <<>>
    /\ expected = <<>>
    /\ ka = "tick"

\* C20: a Close that returns a transport error (from its UNSUBSCRIBE or from
\* the release) leaves the handle present, and a Close that begins on a
\* present handle does not return at the nil check: after a failed Close the
\* next Close attempts the teardown again.
C20_FailedCloseKeepsHandle ==
    /\ [][\A c \in Callers :
            (Returns(c) /\ last'[c].op = "Close" /\ last'[c].ret = "err") =>
                /\ cpc[c] \in {"close1", "close2"}
                /\ conn = "present" /\ conn' = "present"]_vars
    /\ [][(Begins /\ conn = "present") =>
            ~\E c \in Callers : Returns(c) /\ last'[c].op = "Close"]_vars

\* c1's Close failed at the release (the link was down), the handle is still
\* present, and c1's second Close is at its UNSUBSCRIBE
C20_Witness ==
    /\ calls = 2
    /\ last["c1"] = [op |-> "Close", ret |-> "err", k |-> 1]
    /\ cpc["c1"] = "close1"
    /\ last["c2"] = NoCall
    /\ conn = "present"
    /\ tr = "released"

\* C21: after a Close has returned nil, both goroutines return (unless the
\* process has died), whether or not anybody reads the output channel.
C21_GoroutinesEndAfterClose ==
    (\E c \in Callers : ClosedBy(c)) ~> (panicked \/ (rcv = "done" /\ ka = "done"))

\* C22: on a present handle with a healthy connection and a channel
\* subscribed, and no call in progress (so no Close is under way), the
\* receiver goroutine has not returned: it is there to deliver the publishes
\* on the subscribed channels.
C22_ReceiverRunsWhileSubscribed ==
    (/\ conn = "present" /\ Writable /\ subs # {}
     /\ \A c \in Callers : cpc[c] = "idle")
        => rcv # "done"

====
